---- MODULE Spec2Model ----
(***************************************************************************)
(* explainability-rs: arithmetic on arena-allocated Operation nodes that   *)
(* record how each value was derived.                                      *)
(*                                                                         *)
(* A node is a record [kind, value, history, reason, allocator].  Node     *)
(* identity is the address of the node; the model identifies a node by     *)
(* its position in `arena`, the sequence of every node allocated so far,   *)
(* in allocation order.  The field `allocator` names the Arena (session)   *)
(* that owns the node.  Values are exact rationals <<num, den>> in lowest  *)
(* terms (den > 0); the model explores finite arithmetic only (no zero     *)
(* divisor, no square root of a negative number).                          *)
(***************************************************************************)
EXTENDS Integers, Sequences, FiniteSets, TLC

(* ------------------------------ bounds -------------------------------- *)
\* nodes allocated in one run, all sessions together
MaxNodes == 4
\* nodes allocated in one run whose graphs are extracted
MaxGraphNodes == 3

Arenas == {1, 2}
None == "None"
SourceValues == {<<2, 1>>, <<3, 1>>}
SourceReasons == {"a"}
OverrideReasons == {"b", "c"}
Operators == {"+", "-", "*", "/"}
\* the inputs of the runs whose graphs are extracted
GraphValues == {<<2, 1>>}
GraphOperators == {"+", "/"}
GraphReasons == {"b"}
WalkArenas == {1}
\* the addresses an Arena's storage may be placed at
Bases == {100, 200}

VARIABLES
    arena,      \* every node allocated so far, in allocation order
    call,       \* the last call made and the reference it returned
    base,       \* address of each Arena's storage
    pc,         \* "idle"; "walk" inside from_op's loop; "done" once it returned
    graph,      \* locals of from_op / the OperationGraph it returned
    out         \* what the last as_graphviz returned, and for which root

vars == <<arena, call, base, pc, graph, out>>

(* --------------------------- Num arithmetic --------------------------- *)
Abs(x) == IF x < 0 THEN -x ELSE x

RECURSIVE Gcd(_, _)
Gcd(a, b) == IF b = 0 THEN a ELSE Gcd(b, a % b)

\* the rational n/d in lowest terms with a positive denominator
Norm(n, d) ==
    LET g == Gcd(Abs(n), Abs(d))
        s == IF d < 0 THEN -1 ELSE 1
    IN  <<s * (n \div g), s * (d \div g)>>

\* `self_value $operator other_value`, left operand first
ApplyOp(OP, l, r) ==
    CASE OP = "+" -> Norm(l[1] * r[2] + r[1] * l[2], l[2] * r[2])
      [] OP = "-" -> Norm(l[1] * r[2] - r[1] * l[2], l[2] * r[2])
      [] OP = "*" -> Norm(l[1] * r[1], l[2] * r[2])
      [] OP = "/" -> Norm(l[1] * r[2], l[2] * r[1])

\* the operation is defined on finite numbers
Finite(OP, l, r) == OP = "/" => r[1] # 0

RECURSIVE IsqrtFrom(_, _)
IsqrtFrom(n, k) == IF (k + 1) * (k + 1) > n THEN k ELSE IsqrtFrom(n, k + 1)

\* f32::sqrt, rounded down to an integer
Sqrt(v) == <<IsqrtFrom(v[1] \div v[2], 0), 1>>

(* ----------------------------- node model ----------------------------- *)
\* the variant an operator builds: $OpVariant / $variant_ctor of impl_arithmetic
OpVariant(OP) ==
    CASE OP = "+" -> "Sum"
      [] OP = "-" -> "Difference"
      [] OP = "*" -> "Product"
      [] OP = "/" -> "Quotient"

\* Operation::new / Operation::new_with_reason
new(i, reason, alloc) ==
    [kind |-> "Source", value |-> i, history |-> <<>>,
     reason |-> reason, allocator |-> alloc]

\* Arena::alloc: the node goes into a fresh slot; the reference to it is returned
Alloc(a, node) == Append(a, node)

(* ---------------------------- merge engine ---------------------------- *)
\* (the Source operand's value taken as the left operand)
FoldValueFoldeeFirst(OP, self_value, other_value, foldee_value, folded_value) ==
    ApplyOp(OP, foldee_value, folded_value)

\* Case A value: `self_value $operator other_value`
FoldValue(OP, self_value, other_value, foldee_value, folded_value) ==
    ApplyOp(OP, self_value, other_value)

\* (the Source operand put first)
FoldHistoryFront(history, foldee) == <<foldee>> \o history

\* Case A history: history.iter().copied().chain(once(foldee))
FoldHistory(history, foldee) == Append(history, foldee)

\* Case A reason: reason.clone() of the $OpVariant operand
FoldReason(folded, foldee) == folded.reason

\* (the second history left out)
ChainHistoryFirstOnly(hist_a, hist_b) == hist_a

\* Case C history: hist_a.iter().copied().chain(hist_b.iter().copied())
ChainHistory(hist_a, hist_b) == hist_a \o hist_b

\* (the operands' histories folded in)
PairHistoryFlattened(a, self, other) ==
    (IF a[self].kind = "Source" THEN <<self>> ELSE a[self].history)
        \o (IF a[other].kind = "Source" THEN <<other>> ELSE a[other].history)

\* Cases B and D history: vec![self, other]
PairHistory(a, self, other) == <<self, other>>

\* the node impl_arithmetic allocates for `self OP other`; the match arms in order
impl_arithmetic(a, OP, self, other) ==
    LET s == a[self]
        o == a[other]
        K == OpVariant(OP)
        self_value == s.value
        other_value == o.value
        fold(foldee, folded) ==
            [kind |-> K,
             value |-> FoldValue(OP, self_value, other_value,
                                 a[foldee].value, a[folded].value),
             history |-> FoldHistory(a[folded].history, foldee),
             reason |-> FoldReason(a[folded], a[foldee]),
             allocator |-> s.allocator]
        chain(pa, pb) ==
            [kind |-> K,
             value |-> ApplyOp(OP, self_value, other_value),
             history |-> ChainHistory(a[pa].history, a[pb].history),
             reason |-> a[pa].reason,
             allocator |-> s.allocator]
    IN  IF s.kind = "Source" /\ o.kind = K THEN fold(self, other)
        ELSE IF o.kind = "Source" /\ s.kind = K THEN fold(other, self)
        ELSE IF s.kind = "Source" /\ o.kind = "Source" THEN
            [kind |-> K,
             value |-> ApplyOp(OP, s.value, o.value),
             history |-> PairHistory(a, self, other),
             reason |-> None,
             allocator |-> s.allocator]
        ELSE IF s.kind = K /\ o.kind = K /\ o.reason = None THEN chain(self, other)
        ELSE IF o.kind = K /\ s.kind = K /\ s.reason = None THEN chain(other, self)
        ELSE
            [kind |-> K,
             value |-> ApplyOp(OP, s.value, o.value),
             history |-> PairHistory(a, self, other),
             reason |-> None,
             allocator |-> s.allocator]

\* Add::add and its siblings: `self OP other`
add(a, OP, self, other) ==
    Alloc(a, impl_arithmetic(a, OP, self, other))

\* (a reason already carried over is kept)
SetReasonIfAbsent(a, res, reason) ==
    IF a[res].reason = None THEN [a EXCEPT ![res].reason = reason] ELSE a

\* (the reason written to the slot before the one just allocated)
SetReasonOffByOne(a, res, reason) == [a EXCEPT ![res - 1].reason = reason]

\* overload_operator_commented: res.reason = reason, on the node just allocated
SetReason(a, res, reason) == [a EXCEPT ![res].reason = reason]

\* overload_operator_commented: `self OP (other, reason)`
overload_operator_commented(a, OP, self, other, reason) ==
    LET allocated == add(a, OP, self, other)
    IN  SetReason(allocated, Len(allocated), reason)

\* (the slot of the node being allocated instead of the operand's)
OperateHistorySelf(a, operand) == <<Len(a) + 1>>

\* Sqrt::operate history: vec![operand], the literal operand list
OperateHistory(a, operand) == <<operand>>

\* an extension operator, Sqrt::operate
operate(a, operand) ==
    Alloc(a, [kind |-> "Other",
              value |-> Sqrt(a[operand].value),
              history |-> OperateHistory(a, operand),
              reason |-> None,
              allocator |-> a[operand].allocator])

(* -------------------------- graph extraction -------------------------- *)
\* (no lookup: every history entry is pushed)
PositionNeverFound(nodes, prior) == -1

\* nodes.iter().enumerate().find(|(_, &i_op)| std::ptr::eq(i_op, prior)):
\* the 0-based index of the first entry that is `prior`, -1 when there is none
Position(nodes, prior) ==
    IF \E i \in 1..Len(nodes) : nodes[i] = prior
    THEN (CHOOSE i \in 1..Len(nodes) :
              /\ nodes[i] = prior
              /\ \A j \in 1..(i - 1) : nodes[j] # prior) - 1
    ELSE -1

\* the body of the for loop over node.history(), for the entry `prior`
VisitPrior(g, prior) ==
    LET found == Position(g.nodes, prior)
        nodes == IF found = -1 THEN Append(g.nodes, prior) ELSE g.nodes
        position == IF found = -1 THEN Len(nodes) - 1 ELSE found
    IN  [g EXCEPT !.nodes = nodes,
                  !.edges = Append(@, <<position, g.current_parent>>)]

\* the for loop over node.history(), h being the entries still to visit
RECURSIVE Visit(_, _)
Visit(g, h) ==
    IF h = <<>> THEN g
    ELSE CHOOSE r \in {Visit(g2, Tail(h)) : g2 \in {VisitPrior(g, Head(h))}} : TRUE

\* the order of (usize, usize)
EdgeLess(e, f) == e[1] < f[1] \/ (e[1] = f[1] /\ e[2] < f[2])

RECURSIVE Insert(_, _)
Insert(e, sorted) ==
    IF sorted = <<>> THEN <<e>>
    ELSE IF EdgeLess(Head(sorted), e) THEN <<Head(sorted)>> \o Insert(e, Tail(sorted))
    ELSE <<e>> \o sorted

\* (the edges left in the order they were recorded)
SortSkipped(edges) == edges

\* edges.sort()
RECURSIVE Sort(_)
Sort(edges) ==
    IF edges = <<>> THEN <<>>
    ELSE CHOOSE r \in {Insert(Head(edges), rest) : rest \in {Sort(Tail(edges))}} : TRUE

\* edges.dedup(): consecutive repeats are removed
RECURSIVE Dedup(_)
Dedup(edges) ==
    IF Len(edges) < 2 THEN edges
    ELSE IF edges[1] = edges[2] THEN Dedup(Tail(edges))
    ELSE <<Head(edges)>> \o Dedup(Tail(edges))

\* from_op up to the loop: the discovery list holds the root
FromOpInit(root) == [nodes |-> <<root>>, edges |-> <<>>, current_parent |-> 0]

\* (the cursor is not advanced)
LoopBodyNoAdvance(a, g) ==
    LET op == a[g.nodes[g.current_parent + 1]]
    IN  IF op.kind = "Source" THEN g ELSE Visit(g, op.history)

\* one iteration of the loop, up to and including current_parent += 1
LoopBody(a, g) ==
    LET op == a[g.nodes[g.current_parent + 1]]
        visited == IF op.kind = "Source" THEN g ELSE Visit(g, op.history)
    IN  [visited EXCEPT !.current_parent = @ + 1]

\* the break condition
LoopBreak(g) == g.current_parent >= Len(g.nodes)

\* after the loop: edges.sort(); edges.dedup()
Finish(g) ==
    [g EXCEPT !.edges = CHOOSE r \in {Dedup(sorted) : sorted \in {Sort(@)}} : TRUE]

\* OperationGraph::from_op, start to return
RECURSIVE Loop(_, _)
Loop(a, g) ==
    CHOOSE r \in {IF LoopBreak(g2) THEN Finish(g2) ELSE Loop(a, g2) :
                     g2 \in {LoopBody(a, g)}} : TRUE

from_op(a, root) == Loop(a, FromOpInit(root))

(* ------------------------------ exporter ------------------------------ *)
\* the address of node n: its slot in the storage of the Arena that owns it
NodeAddr(a, b, n) ==
    b[a[n].allocator] + Cardinality({j \in 1..n : a[j].allocator = a[n].allocator})

\* Labeller::node_id: format!("op{n:p}")
node_id(a, b, n) == <<"op", NodeAddr(a, b, n)>>

\* OperationType::variant_symbol
variant_symbol(kind) ==
    CASE kind = "Source" -> " "
      [] kind = "Sum" -> " (+) "
      [] kind = "Difference" -> " (-) "
      [] kind = "Product" -> " (*) "
      [] kind = "Quotient" -> " (/) "
      [] kind = "Other" -> " sqrt "

\* Labeller::node_label: format!("{value}{variant}{reason}")
node_label(a, n) ==
    <<a[n].value, variant_symbol(a[n].kind)>>
        \o (IF a[n].reason = None THEN <<>> ELSE <<" \"", a[n].reason, "\"">>)

\* to_graphviz: the graph id, a statement per node, a statement per edge
to_graphviz(a, b, g) ==
    <<<<"digraph", "backtraced">>>>
        \o [i \in 1..Len(g.nodes) |->
                <<node_id(a, b, g.nodes[i]), node_label(a, g.nodes[i])>>]
        \o [i \in 1..Len(g.edges) |->
                <<node_id(a, b, g.nodes[g.edges[i][1] + 1]), "->",
                  node_id(a, b, g.nodes[g.edges[i][2] + 1])>>]

\* Operation::as_graphviz
as_graphviz(a, b, root) == to_graphviz(a, b, from_op(a, root))

(* ------------------------------ actions ------------------------------- *)
NoCall == [fn |-> "none", OP |-> None, self |-> 0, other |-> 0, reason |-> None, res |-> 0]
NoGraph == [nodes |-> <<>>, edges |-> <<>>, current_parent |-> 0]
NoOut == [root |-> 0, text |-> <<>>]

Returned(fn, OP, self, other, reason) ==
    [fn |-> fn, OP |-> OP, self |-> self, other |-> other, reason |-> reason,
     res |-> Len(arena) + 1]

\* let x = Operation::new(i, &alloc)
New(n, values, arenas) ==
    /\ pc = "idle"
    /\ Len(arena) < n
    /\ \E i \in values, alloc \in arenas :
          /\ arena' = Alloc(arena, new(i, None, alloc))
          /\ call' = Returned("new", None, 0, 0, None)
    /\ UNCHANGED <<base, pc, graph, out>>

\* let x = Operation::new_with_reason(i, reason, &alloc)
NewWithReason(n, values, arenas) ==
    /\ pc = "idle"
    /\ Len(arena) < n
    /\ \E i \in values, reason \in SourceReasons, alloc \in arenas :
          /\ arena' = Alloc(arena, new(i, reason, alloc))
          /\ call' = Returned("new_with_reason", None, 0, 0, reason)
    /\ UNCHANGED <<base, pc, graph, out>>

\* let x = self OP other
Apply(n, operators) ==
    /\ pc = "idle"
    /\ Len(arena) < n
    /\ \E OP \in operators, self \in 1..Len(arena), other \in 1..Len(arena) :
          /\ Finite(OP, arena[self].value, arena[other].value)
          /\ arena' = add(arena, OP, self, other)
          /\ call' = Returned("op", OP, self, other, None)
    /\ UNCHANGED <<base, pc, graph, out>>

\* let x = self OP (other, reason)
ApplyCommented(n, operators, reasons) ==
    /\ pc = "idle"
    /\ Len(arena) < n
    /\ \E OP \in operators, self \in 1..Len(arena), other \in 1..Len(arena),
          reason \in reasons :
          /\ Finite(OP, arena[self].value, arena[other].value)
          /\ arena' = overload_operator_commented(arena, OP, self, other, reason)
          /\ call' = Returned("op_commented", OP, self, other, reason)
    /\ UNCHANGED <<base, pc, graph, out>>

\* let x = sqrt.operate(&[operand])
Operate(n) ==
    /\ pc = "idle"
    /\ Len(arena) < n
    /\ \E operand \in 1..Len(arena) :
          /\ arena[operand].value[1] >= 0
          /\ arena' = operate(arena, operand)
          /\ call' = Returned("operate", None, operand, 0, None)
    /\ UNCHANGED <<base, pc, graph, out>>

\* as_graphviz(root) enters from_op
FromOp ==
    /\ pc = "idle"
    /\ \E root \in 1..Len(arena) :
          graph' = FromOpInit(root)
    /\ pc' = "walk"
    /\ UNCHANGED <<arena, call, base, out>>

\* one iteration of from_op's loop; the last one sorts, dedups and returns
Walk ==
    /\ pc = "walk"
    /\ LET g2 == LoopBody(arena, graph)
       IN  IF LoopBreak(g2)
           THEN graph' = Finish(g2) /\ pc' = "done"
           ELSE graph' = g2 /\ pc' = "walk"
    /\ UNCHANGED <<arena, call, base, out>>

\* as_graphviz renders the graph from_op returned, and drops it
ToGraphviz ==
    /\ pc = "done"
    /\ out' = [root |-> graph.nodes[1], text |-> to_graphviz(arena, base, graph)]
    /\ graph' = NoGraph
    /\ pc' = "idle"
    /\ UNCHANGED <<arena, call, base>>

\* two sessions in one process: their storages lie apart
InitBase == [alloc \in Arenas |-> 100 * alloc]

Init ==
    /\ arena = <<>>
    /\ call = NoCall
    /\ base = InitBase
    /\ pc = "idle"
    /\ graph = NoGraph
    /\ out = NoOut

Next ==
    \/ New(MaxNodes, SourceValues, Arenas)
    \/ NewWithReason(MaxNodes, SourceValues, Arenas)
    \/ Apply(MaxNodes, Operators)
    \/ ApplyCommented(MaxNodes, Operators, OverrideReasons)
    \/ Operate(MaxNodes)

Spec == Init /\ [][Next]_vars

\* the runs whose graphs are extracted and exported
InitGraph ==
    /\ arena = <<>>
    /\ call = NoCall
    /\ base \in {b \in [Arenas -> Bases] : \A x, y \in Arenas : x # y => b[x] # b[y]}
    /\ pc = "idle"
    /\ graph = NoGraph
    /\ out = NoOut

NextGraph ==
    \/ New(MaxGraphNodes, GraphValues, Arenas)
    \/ NewWithReason(MaxGraphNodes, GraphValues, Arenas)
    \/ Apply(MaxGraphNodes, GraphOperators)
    \/ ApplyCommented(MaxGraphNodes, GraphOperators, GraphReasons)
    \/ Operate(MaxGraphNodes)
    \/ FromOp
    \/ Walk
    \/ ToGraphviz

SpecGraph == InitGraph /\ [][NextGraph]_vars

\* the runs of one session that end with one extraction; from_op is a
\* synchronous loop: once entered, its iterations keep being taken
NextWalk ==
    \/ New(MaxGraphNodes, GraphValues, WalkArenas)
    \/ Apply(MaxGraphNodes, GraphOperators)
    \/ Operate(MaxGraphNodes)
    \/ FromOp
    \/ Walk

SpecWalk == Init /\ [][NextWalk]_vars /\ WF_vars(Walk)

(* ------------------------------ claims -------------------------------- *)
\* the last call, its operands and the node it returned
IsMerge == call.fn \in {"op", "op_commented"}
S == arena[call.self]
O == arena[call.other]
R == arena[call.res]
K == OpVariant(call.OP)

\* the conditions of the decision table
CaseA == (S.kind = "Source" /\ O.kind = K) \/ (O.kind = "Source" /\ S.kind = K)
CaseC == S.kind = K /\ O.kind = K /\ (S.reason = None \/ O.reason = None)

\* C1: the node returned by `self OP other` has value self.value OP other.value,
\* self being the left operand, whichever merge case fired
C1_ValueLeftToRight ==
    IsMerge => R.value = ApplyOp(call.OP, S.value, O.value)

\* (a / b) / b: a Quotient on the left absorbs a Source on the right
C1_Witness ==
    /\ call.fn = "op" /\ call.OP = "/"
    /\ S.kind = "Quotient" /\ O.kind = "Source"
    /\ ApplyOp("/", S.value, O.value) # ApplyOp("/", O.value, S.value)
    /\ R.value = ApplyOp("/", S.value, O.value)

\* C2: Case A returns a new node of kind K whose history is the K operand's
\* history followed by the Source operand, and whose reason is the K operand's
C2_CaseA ==
    (IsMerge /\ CaseA) =>
        LET src == IF S.kind = "Source" THEN call.self ELSE call.other
            folded == IF S.kind = "Source" THEN call.other ELSE call.self
        IN  /\ call.res = Len(arena)
            /\ call.res \notin {call.self, call.other}
            /\ R.kind = K
            /\ R.history = arena[folded].history \o <<src>>
            /\ (call.fn = "op" => R.reason = arena[folded].reason)

\* a Source with a reason on the left is folded into a running total on the right
C2_Witness ==
    /\ call.fn = "op" /\ CaseA
    /\ S.kind = "Source" /\ S.reason = "a"
    /\ O.reason # S.reason
    /\ Len(O.history) >= 2
    /\ O.history[1] # call.self
    /\ Len(R.history) = 3

\* C3: Case C returns self's history followed by other's history, also when
\* self is the operand without a reason and other carries one
C3_CaseCOrder ==
    (IsMerge /\ ~CaseA /\ CaseC) => R.history = S.history \o O.history

\* C4: Cases B and D return a new node of kind K whose history is [self, other]
\* and whose reason is None
C4_CasesBD ==
    (IsMerge /\ ~CaseA /\ ~CaseC) =>
        /\ call.res = Len(arena)
        /\ call.res \notin {call.self, call.other}
        /\ R.kind = K
        /\ R.history = <<call.self, call.other>>
        /\ (call.fn = "op" => R.reason = None)

\* two totals that both carry a reason are kept as two children
C4_Witness ==
    /\ call.fn = "op" /\ ~CaseA /\ ~CaseC
    /\ S.kind = K /\ O.kind = K
    /\ S.reason # None /\ O.reason # None
    /\ Len(S.history) + Len(O.history) > 2
    /\ R.history = <<call.self, call.other>>

\* C5: `self OP (other, r)` returns the node `self OP other` would return, with
\* reason Some(r) in place of the reason the merge case selected
C5_Annotated ==
    call.fn = "op_commented" =>
        LET before == SubSeq(arena, 1, call.res - 1)
            plain == impl_arithmetic(before, call.OP, call.self, call.other)
        IN  /\ R.kind = plain.kind
            /\ R.value = plain.value
            /\ R.history = plain.history
            /\ R.reason = call.reason

\* the merge case carried a reason over and the annotation replaced it
C5_Witness ==
    /\ call.fn = "op_commented"
    /\ CaseA \/ CaseC
    /\ \E x \in {call.self, call.other} :
          arena[x].kind = K /\ arena[x].reason \notin {None, call.reason}
    /\ R.reason = call.reason


\* C6: extraction returns no node twice and no edge twice; for x = s + s it
\* returns one entry for s and the single edge (index of s, index of x)
NoRepeats(seq) == \A i, j \in 1..Len(seq) : seq[i] = seq[j] => i = j

C6_Deduplicated ==
    pc = "done" =>
        /\ NoRepeats(graph.nodes)
        /\ NoRepeats(graph.edges)
        /\ LET x == graph.nodes[1]
           IN  (/\ arena[x].kind # "Source"
                /\ Len(arena[x].history) = 2
                /\ arena[x].history[1] = arena[x].history[2]
                /\ arena[arena[x].history[1]].kind = "Source")
               => /\ graph.nodes = <<x, arena[x].history[1]>>
                  /\ graph.edges = <<<<1, 0>>>>

\* x = s + s has been extracted
C6_Witness ==
    /\ pc = "done"
    /\ LET x == graph.nodes[1]
       IN  /\ arena[x].kind = "Sum"
           /\ Len(arena[x].history) = 2
           /\ arena[x].history[1] = arena[x].history[2]
           /\ arena[arena[x].history[1]].kind = "Source"
    /\ Len(graph.nodes) = 2
    /\ Len(graph.edges) = 1

\* C7: an operation leaves every node that existed before it as it was, and a
\* merge allocates one new node, the one it returns
C7_Frame ==
    [][/\ Len(arena') >= Len(arena)
       /\ \A i \in 1..Len(arena) : arena'[i] = arena[i]
       /\ (call' # call) =>
             /\ Len(arena') = Len(arena) + 1
             /\ call'.res = Len(arena')
             /\ call'.res \notin {call'.self, call'.other}]_vars

\* an annotated merge whose operands carry other reasons than the annotation
C7_Witness ==
    /\ call.fn = "op_commented"
    /\ call.res = Len(arena)
    /\ S.reason # call.reason
    /\ O.reason # call.reason
    /\ arena[call.res - 1].reason # call.reason
    /\ R.reason = call.reason

\* C8: every history entry of a node was created strictly before the node, and
\* Source nodes have no history entries
C8_Acyclic ==
    \A n \in 1..Len(arena) :
        /\ \A k \in 1..Len(arena[n].history) :
              arena[n].history[k] \in 1..(n - 1)
        /\ arena[n].kind = "Source" => arena[n].history = <<>>

\* a merge result that has an extension operator's node in its history
C8_Witness ==
    \E n, m \in 1..Len(arena) :
        /\ arena[n].kind \in {"Sum", "Difference", "Product", "Quotient"}
        /\ arena[m].kind = "Other"
        /\ \E k \in 1..Len(arena[n].history) : arena[n].history[k] = m

\* C9: no node allocated in one session has a history entry owned by another
\* session (a merge across sessions is rejected)
C9_SessionsApart ==
    \A n \in 1..Len(arena) :
        \A k \in 1..Len(arena[n].history) :
            arena[arena[n].history[k]].allocator = arena[n].allocator

\* C10: exporting the same root twice, or the roots of two runs of the same
\* construction sequence, gives the same diagram text
\* the nodes of one session in allocation order, history as slots of the session
Slot(a, n) == Cardinality({j \in 1..n : a[j].allocator = a[n].allocator})

Owned(a, alloc) == {n \in 1..Len(a) : a[n].allocator = alloc}

Closed(a, alloc) ==
    \A n \in Owned(a, alloc) :
        \A k \in 1..Len(a[n].history) : a[n].history[k] \in Owned(a, alloc)

Construction(a, alloc) ==
    {<<Slot(a, n), a[n].kind, a[n].value, a[n].reason,
       [k \in 1..Len(a[n].history) |-> Slot(a, a[n].history[k])]>> :
        n \in Owned(a, alloc)}

C10_ExportDeterministic ==
    /\ out.root # 0 => out.text = as_graphviz(arena, base, out.root)
    /\ \A x, y \in Arenas :
          (/\ Closed(arena, x) /\ Closed(arena, y)
           /\ Construction(arena, x) = Construction(arena, y))
          => \A r1 \in Owned(arena, x), r2 \in Owned(arena, y) :
                Slot(arena, r1) = Slot(arena, r2)
                => as_graphviz(arena, base, r1) = as_graphviz(arena, base, r2)

\* C11: extraction returns the root at index 0, a node list that is exactly the
\* set of nodes reachable from the root through history edges, and an edge list
\* that is exactly the pairs (index of p, index of c) with c an extracted
\* non-Source node and p an entry of c's history, in ascending order
Operands(a, n) == {a[n].history[k] : k \in 1..Len(a[n].history)}

RECURSIVE ReachableFrom(_, _)
ReachableFrom(a, seen) ==
    LET more == seen \cup UNION {Operands(a, n) : n \in seen}
    IN  IF more = seen THEN seen ELSE ReachableFrom(a, more)

IndexOf(nodes, n) == (CHOOSE i \in 1..Len(nodes) : nodes[i] = n) - 1

C11_ExactGraph ==
    /\ pc = "done" => graph = from_op(arena, graph.nodes[1])
    /\ pc = "idle" => \A root \in 1..Len(arena) :
          LET g == from_op(arena, root)
              extracted == {g.nodes[i] : i \in 1..Len(g.nodes)}
          IN  /\ g.nodes[1] = root
              /\ extracted = ReachableFrom(arena, {root})
              /\ {g.edges[i] : i \in 1..Len(g.edges)}
                    = {<<IndexOf(g.nodes, p), IndexOf(g.nodes, c)>> :
                          <<p, c>> \in {e \in extracted \X extracted :
                                           /\ arena[e[2]].kind # "Source"
                                           /\ e[1] \in Operands(arena, e[2])}}
              /\ \A i \in 1..Len(g.edges) :
                    /\ g.edges[i][1] \in 0..(Len(g.nodes) - 1)
                    /\ g.edges[i][2] \in 0..(Len(g.nodes) - 1)
              /\ \A i, j \in 1..Len(g.edges) :
                    i < j => EdgeLess(g.edges[i], g.edges[j])

\* a root whose history is [s, x], x itself built from s: the edges were recorded
\* as (1,0), (2,0), (1,2), (1,2)
C11_Witness ==
    /\ pc = "done"
    /\ Len(graph.nodes) = 3
    /\ arena[graph.nodes[2]].kind = "Source"
    /\ arena[graph.nodes[3]].kind # "Source"
    /\ graph.edges = <<<<1, 0>>, <<1, 2>>, <<2, 0>>>>

\* C12: extraction terminates for every root: the cursor advances by one node per
\* iteration, the walk stops when the cursor reaches the end of the discovery
\* list, and by then every listed node is listed once
C12_Terminates ==
    /\ (pc = "walk") ~> (pc = "done")
    /\ [][pc = "walk" =>
            /\ graph'.current_parent = graph.current_parent + 1
            /\ graph'.current_parent <= Len(graph'.nodes)
            /\ SubSeq(graph'.nodes, 1, Len(graph.nodes)) = graph.nodes
            /\ (pc' = "done") = (graph'.current_parent = Len(graph'.nodes))]_vars
    /\ [](pc = "done" =>
            /\ graph.current_parent = Len(graph.nodes)
            /\ NoRepeats(graph.nodes))

\* the walk from a root x + x, x itself a shared non-Source node, has ended
C12_Witness ==
    /\ pc = "done"
    /\ LET root == arena[graph.nodes[1]]
       IN  /\ Len(root.history) = 2
           /\ root.history[1] = root.history[2]
           /\ arena[root.history[1]].kind # "Source"
    /\ Len(graph.nodes) = 3
    /\ graph.current_parent = 3

\* C13: under exact arithmetic the value of every Sum node is the sum of the
\* values of its history entries, counted with multiplicity, and the value of
\* every Product node is their product
RECURSIVE Total(_, _, _, _)
Total(a, OP, unit, h) ==
    IF h = <<>> THEN unit
    ELSE ApplyOp(OP, a[Head(h)].value, Total(a, OP, unit, Tail(h)))

C13_HistoryTotals ==
    \A n \in 1..Len(arena) :
        /\ arena[n].kind = "Sum"
              => arena[n].value = Total(arena, "+", <<0, 1>>, arena[n].history)
        /\ arena[n].kind = "Product"
              => arena[n].value = Total(arena, "*", <<1, 1>>, arena[n].history)

\* two totals folded into one (Case C): four entries of two different values
C13_Witness ==
    /\ IsMerge /\ ~CaseA /\ CaseC
    /\ R.kind \in {"Sum", "Product"}
    /\ Len(R.history) = 4
    /\ \E i, j \in 1..4 : arena[R.history[i]].value # arena[R.history[j]].value
    /\ R.value = Total(arena, call.OP, IF call.OP = "+" THEN <<0, 1>> ELSE <<1, 1>>,
                       R.history)
====
